---- MODULE Spec2Model ----
(***************************************************************************)
(* Model of detectem's Detector (src/detectem/core.py): the preparation of *)
(* the HAR entries (main entry marking, inline scripts), the routing of    *)
(* matcher groups by entry type, hint collection, and the detection run    *)
(* get_results = process_har ; process_from_splash ; sorted output.        *)
(***************************************************************************)
EXTENDS Integers, Sequences, FiniteSets, TLC

VARIABLES
    requested_url,   \* Detector.requested_url
    response,        \* the response dict handed to the constructor
    har,             \* Detector.har (the prepared entries)
    pc,              \* position of the run: new, har, flush, splash, sort, done, failed
    ei,              \* index of the entry process_har is working on
    phase,           \* which plugin loop of that entry comes next
    si,              \* index of the software process_from_splash is working on
    hints,           \* process_har's local list of queued hints
    added,           \* the calls of ResultCollection.add_result, in order
    calls,           \* the matcher invocations made so far
    output,          \* what get_results returned
    probe,           \* a plugin handed to get_hints on its own
    probe_out        \* what that call of get_hints returned

vars == <<requested_url, response, har, pc, ei, phase, si, hints, added, calls,
          output, probe, probe_out>>

\* ---------------------------------------------------------------- bounds
MaxHarA == 3
MaxScriptsA == 1
MaxHar == 2
MaxScripts == 1
MaxSoftwares == 2
MaxHints == 3

\* ------------------------------------------------------------- constants
RESOURCE_ENTRY == "resource"
MAIN_ENTRY == "main"
\* core.py imports INLINE_SCRIPT_ENTRY and GENERIC_TYPE from detectem.settings.
INLINE_SCRIPT_ENTRY == "inline-script"
VERSION_TYPE == "version"
INDICATOR_TYPE == "indicator"
HINT_TYPE == "hint"
GENERIC_TYPE == "generic"

\* Python's None, for values that are strings otherwise.
None == "None"
\* Python truthiness of an optional string.
Truthy(s) == s # None /\ s # ""

\* An entry that has not been through _set_entry_type carries no type.
Untyped == "untyped"

SeqsUpTo(S, n) == UNION {[1..k -> S] : k \in 0..n}

\* ------------------------------------------------------------------ URLs
\* A URL is a host and a path.  A header value is a URL reference: empty,
\* absolute (host and path) or an absolute path.
Url(h, p) == [host |-> h, path |-> p]
RefEmpty == [kind |-> "empty", host |-> "", path |-> ""]
RefAbs(h, p) == [kind |-> "abs", host |-> h, path |-> p]
RefPath(p) == [kind |-> "path", host |-> "", path |-> p]
\* get_location's None.
NoLocation == [kind |-> "none", host |-> "", path |-> ""]

urljoin(base, ref) ==
    IF ref.kind = "abs" THEN Url(ref.host, ref.path)
    ELSE IF ref.kind = "path" THEN Url(base.host, ref.path)
    ELSE base

Header(n, v) == [name |-> n, value |-> v]

Entry(req, resp, hdrs, text) ==
    [request_url |-> req, response_url |-> resp, headers |-> hdrs,
     text |-> text, type |-> Untyped]

\* ------------------------------------------------------ entry preparation
_set_entry_type(entry, entry_type) == [entry EXCEPT !.type = entry_type]

_get_entry_type(entry) == entry.type

\* get_url local to _mark_main_entry
request_url_of(entry) == entry.request_url

RECURSIVE get_location_from(_, _)
get_location_from(headers, i) ==
    IF i > Len(headers) THEN NoLocation
    ELSE IF headers[i].name = "Location" THEN headers[i].value
    ELSE get_location_from(headers, i + 1)

get_location(entry) == get_location_from(entry.headers, 1)

\* `not main_location`: None and the empty string are both falsy.
LocationFalsy(loc) == loc.kind = "none" \/ loc.kind = "empty"

\* Variant: the scan does not stop at its first match.
RECURSIVE ScanForMain_no_break(_, _, _)
ScanForMain_no_break(entries, main_url, i) ==
    IF i > Len(entries) THEN 0
    ELSE LET later == ScanForMain_no_break(entries, main_url, i + 1)
         IN  IF later # 0 THEN later
             ELSE IF entries[i].request_url = main_url THEN i ELSE 0

\* The for/else scan of entries[1:]: the index of the first entry whose
\* request URL is main_url, 0 when the loop runs to its end.
RECURSIVE ScanForMain(_, _, _)
ScanForMain(entries, main_url, i) ==
    IF i > Len(entries) THEN 0
    ELSE IF request_url_of(entries[i]) = main_url THEN i
    ELSE ScanForMain(entries, main_url, i + 1)

\* _set_entry_type on the i-th entry of a list (the dicts are updated in place).
SetTypeAt(entries, i, entry_type) ==
    [k \in 1..Len(entries) |->
        IF k = i THEN _set_entry_type(entries[k], entry_type) ELSE entries[k]]

\* The first loop of _mark_main_entry.
AllResource(entries) ==
    [k \in 1..Len(entries) |-> _set_entry_type(entries[k], RESOURCE_ENTRY)]

\* Variant: the scan's else branch runs even after a match.
_mark_main_entry_no_else(entries) ==
    LET all == AllResource(entries)
        main_location == get_location(all[1])
        first == SetTypeAt(all, 1, MAIN_ENTRY)
    IN  IF LocationFalsy(main_location) THEN first
        ELSE LET hit == ScanForMain(all, urljoin(request_url_of(all[1]), main_location), 2)
             IN  IF hit # 0 THEN SetTypeAt(first, hit, MAIN_ENTRY) ELSE first

_mark_main_entry(entries) ==
    LET all == AllResource(entries)
        main_entry == all[1]
        main_location == get_location(main_entry)
    IN  IF LocationFalsy(main_location)
        THEN SetTypeAt(all, 1, MAIN_ENTRY)
        ELSE LET main_url == urljoin(request_url_of(main_entry), main_location)
                 hit == ScanForMain(all, main_url, 2)
             IN  IF hit # 0
                 THEN SetTypeAt(all, hit, MAIN_ENTRY)
                 ELSE SetTypeAt(all, 1, MAIN_ENTRY)

\* Variant: the synthetic entry takes the script text as its URL's path.
_script_to_har_entry_script_url(script, url) ==
    _set_entry_type(Entry(url, Url(url.host, script), <<>>, script),
                    INLINE_SCRIPT_ENTRY)

_script_to_har_entry(script, url) ==
    _set_entry_type(Entry(url, url, <<>>, script), INLINE_SCRIPT_ENTRY)

\* response.get('har', []) and response.get('scripts', [])
ResponseHar(resp) == IF resp.has_har THEN resp.har ELSE <<>>
ResponseScripts(resp) == resp.scripts

_prepare_har(resp, url) ==
    LET h == ResponseHar(resp)
        marked == IF h # <<>> THEN _mark_main_entry(h) ELSE h
        scripts == ResponseScripts(resp)
    IN  marked \o [k \in 1..Len(scripts) |-> _script_to_har_entry(scripts[k], url)]

\* ============================================================ construction
\* Inputs of the construction specification.
HostsA == {"a", "b"}
PathsA == {"/", "/x"}
UrlsA == {Url(h, p) : h \in HostsA, p \in PathsA}

FirstHeaderLists ==
    { <<>>,
      <<Header("Location", RefEmpty)>>,
      <<Header("Location", RefAbs("b", "/x"))>>,
      <<Header("Location", RefPath("/x"))>>,
      <<Header("Location", RefPath("/"))>>,
      <<Header("Server", RefPath("/x")), Header("Location", RefAbs("a", "/"))>>,
      <<Header("location", RefAbs("b", "/x"))>>,
      <<Header("Location", RefEmpty), Header("Location", RefPath("/x"))>>,
      <<Header("Location", RefPath("/x")), Header("Location", RefPath("/"))>> }

FirstEntriesA == {Entry(u, u, h, "body") : u \in UrlsA, h \in FirstHeaderLists}
LaterEntriesA ==
    {Entry(u, u, <<>>, "body") : u \in UrlsA}
    \cup {Entry(Url("b", "/"), Url("b", "/"),
                <<Header("Location", RefPath("/x"))>>, "body")}

HarsA ==
    {<<>>} \cup
    UNION {{<<f>> \o t : t \in SeqsUpTo(LaterEntriesA, MaxHarA - 1)} : f \in FirstEntriesA}

ScriptsA == {"s1", "s2"}

\* get_results has not returned.
NoOutput == [returned |-> FALSE, metadata |-> FALSE, data |-> <<>>]

NoProbe == [name |-> None, homepage |-> None, hints |-> <<>>]

Idle ==
    /\ ei = 0 /\ phase = "none" /\ si = 0 /\ hints = <<>> /\ added = <<>>
    /\ calls = {} /\ output = NoOutput /\ probe = NoProbe /\ probe_out = <<>>

InitPrepare ==
    /\ requested_url \in {Url("a", "/"), Url("b", "/x")}
    /\ \E h \in HarsA, s \in SeqsUpTo(ScriptsA, MaxScriptsA), present \in BOOLEAN :
          /\ (~present => h = <<>>)
          /\ response = [has_har |-> present, har |-> h, scripts |-> s,
                          softwares |-> <<>>]
    /\ har = <<>>
    /\ pc = "new"
    /\ Idle

\* Detector.__init__
Construct ==
    /\ pc = "new"
    /\ har' = _prepare_har(response, requested_url)
    /\ pc' = "ready"
    /\ UNCHANGED <<requested_url, response, ei, phase, si, hints, added, calls,
                   output, probe, probe_out>>

NextPrepare == Construct

SpecPrepare == InitPrepare /\ [][NextPrepare]_vars

\* ----------------------------------------------------- claims C1, C2, C3
Prepared == pc # "new"
H == Len(ResponseHar(response))
N == Len(ResponseScripts(response))
MainIndices == {i \in 1..Len(har) : har[i].type = MAIN_ENTRY}
HasLocationHeader(e) == \E k \in 1..Len(e.headers) : e.headers[k].name = "Location"
FirstLocation(e) ==
    e.headers[CHOOSE k \in 1..Len(e.headers) :
                 /\ e.headers[k].name = "Location"
                 /\ \A j \in 1..(k - 1) : e.headers[j].name # "Location"].value
\* The later har entries whose request URL is the redirect target.
Targets(ref) ==
    {i \in 2..H : har[i].request_url =
                     (IF ref.kind = "abs" THEN Url(ref.host, ref.path)
                      ELSE IF ref.kind = "path" THEN Url(har[1].request_url.host, ref.path)
                      ELSE har[1].request_url)}
Least(S) == CHOOSE i \in S : \A j \in S : i <= j
\* The main entry the claim names, the first har entry taken as redirecting
\* exactly when `redirects` holds of it.
ExpectedMain(redirects) ==
    IF ~redirects THEN 1
    ELSE IF Targets(FirstLocation(har[1])) # {} THEN Least(Targets(FirstLocation(har[1])))
    ELSE 1
ClassifiedAs(m) ==
    \A i \in 1..H : har[i].type = (IF i = m THEN MAIN_ENTRY ELSE RESOURCE_ENTRY)

\* C1 as stated: without a Location header the first har entry is MAIN; with
\* Location=X the first later entry whose request URL is urljoin(first URL, X)
\* is MAIN, the first entry when there is none; every other entry is RESOURCE.
C1_Original ==
    (Prepared /\ H > 0) => ClassifiedAs(ExpectedMain(HasLocationHeader(har[1])))

\* C1 amended: a Location header whose value is empty counts as no Location
\* header (the first entry is MAIN); otherwise as stated.
C1_MainEntry ==
    (Prepared /\ H > 0) =>
        ClassifiedAs(ExpectedMain(HasLocationHeader(har[1])
                                  /\ FirstLocation(har[1]).kind # "empty"))

\* A redirect whose target occurs twice among the later entries, the first
\* occurrence marked.
C1_Witness ==
    /\ Prepared /\ H >= 3
    /\ HasLocationHeader(har[1])
    /\ Cardinality(Targets(FirstLocation(har[1]))) >= 2
    /\ har[1].type = RESOURCE_ENTRY
    /\ har[Least(Targets(FirstLocation(har[1])))].type = MAIN_ENTRY

\* C2 as stated: exactly one prepared entry is MAIN whenever there is at
\* least one prepared entry.
C2_Original == (Prepared /\ Len(har) > 0) => Cardinality(MainIndices) = 1

\* C2 amended: exactly one prepared entry is MAIN whenever the har list is
\* non-empty; with an empty har list no entry is MAIN.
C2_OneMain ==
    Prepared => Cardinality(MainIndices) = (IF H > 0 THEN 1 ELSE 0)

\* A redirect followed to a later entry, with inline scripts behind it.
C2_Witness ==
    /\ Prepared /\ H >= 2 /\ N >= 1
    /\ MainIndices # {} /\ 1 \notin MainIndices

NoPlugin ==
    [name |-> None, homepage |-> None, ptype |-> None, is_modular |-> FALSE,
     hints |-> <<>>, file_hashes |-> <<>>, matchers |-> <<>>, indicators |-> <<>>,
     modular_matchers |-> <<>>]

FileHashes(file, hashes) == [file |-> file, hashes |-> hashes]
VersionHash(v, h) == [version |-> v, hash |-> h]

\* The plugin registry handed to the constructor (self._plugins).
Registry ==
    << [name |-> "jquery", homepage |-> "hp-jquery", ptype |-> "version",
        is_modular |-> TRUE, hints |-> <<>>, file_hashes |-> <<>>,
        matchers |-> <<"url", "body", "header">>, indicators |-> <<>>,
        modular_matchers |-> <<"url", "body", "xpath">>],
       [name |-> "d3", homepage |-> "hp-d3", ptype |-> "version",
        is_modular |-> FALSE, hints |-> <<"nope", "wp">>, file_hashes |-> <<>>,
        matchers |-> <<"body", "xpath">>, indicators |-> <<>>,
        modular_matchers |-> <<>>],
       [name |-> "wp", homepage |-> "hp-wp", ptype |-> "indicator",
        is_modular |-> TRUE, hints |-> <<"jquery", "ghost", "d3">>,
        file_hashes |->
            << FileHashes("lib/", <<VersionHash("9.9", "d9")>>),
               FileHashes("app.js", <<VersionHash("1.1", "d3"),
                                      VersionHash("1.0", "d1")>>) >>,
        matchers |-> <<>>, indicators |-> <<"url", "body", "xpath">>,
        modular_matchers |-> <<"header", "xpath">>],
       [name |-> "ga", homepage |-> "hp-ga", ptype |-> "indicator",
        is_modular |-> FALSE, hints |-> <<>>, file_hashes |-> <<>>,
        matchers |-> <<>>, indicators |-> <<"url", "header">>,
        modular_matchers |-> <<>>],
       [name |-> "cms", homepage |-> "hp-cms", ptype |-> "generic",
        is_modular |-> FALSE, hints |-> <<"wp">>, file_hashes |-> <<>>,
        matchers |-> <<>>, indicators |-> <<"url", "header">>,
        modular_matchers |-> <<>>] >>

RegisteredNames == {Registry[k].name : k \in 1..Len(Registry)}

\* self._plugins.get(name): the plugin, or None.
PluginsGet(name) ==
    IF name \in RegisteredNames
    THEN Registry[CHOOSE k \in 1..Len(Registry) : Registry[k].name = name]
    ELSE NoPlugin

IsPlugin(plugin) == plugin.name # None

with_version_matchers == SelectSeq(Registry, LAMBDA q : q.ptype = "version")
with_indicator_matchers == SelectSeq(Registry, LAMBDA q : q.ptype = "indicator")
with_generic_matchers == SelectSeq(Registry, LAMBDA q : q.ptype = "generic")

\* plugin.get_grouped_matchers(source): the kinds of the source's table.
get_grouped_matchers(plugin, source) ==
    IF source = "matchers" THEN plugin.matchers
    ELSE IF source = "indicators" THEN plugin.indicators
    ELSE plugin.modular_matchers

\* ---------------------------------------------------------------- results
Result(name, version, homepage, from_url, type) ==
    [name |-> name, version |-> version, homepage |-> homepage,
     from_url |-> from_url, type |-> type]

\* ------------------------------------------------------------------ hints
\* Variant: the hint is built from the hinting plugin, not the hinted one.
RECURSIVE get_hints_own_name(_, _, _)
get_hints_own_name(plugin, url, i) ==
    IF i > Len(plugin.hints) THEN <<>>
    ELSE LET hint_plugin == PluginsGet(plugin.hints[i])
         IN  (IF IsPlugin(hint_plugin)
              THEN <<Result(plugin.name, None, plugin.homepage, url, HINT_TYPE)>>
              ELSE <<>>)
             \o get_hints_own_name(plugin, url, i + 1)

\* The loop of get_hints from the i-th hint name on.
RECURSIVE get_hints_from(_, _, _)
get_hints_from(plugin, url, i) ==
    IF i > Len(plugin.hints) THEN <<>>
    ELSE LET hint_plugin == PluginsGet(plugin.hints[i])
         IN  (IF IsPlugin(hint_plugin)
              THEN <<Result(hint_plugin.name, None, hint_plugin.homepage, url,
                            HINT_TYPE)>>
              ELSE <<>>)
             \o get_hints_from(plugin, url, i + 1)

get_hints(plugin, url) == get_hints_from(plugin, url, 1)

\* Inputs of the hints specification: a plugin whose hints list is any list
\* of registered and unregistered names.
HintNames == {"jquery", "wp", "nope"}

InitHints ==
    /\ requested_url \in {Url("a", "/"), Url("b", "/x")}
    /\ response = [has_har |-> FALSE, har |-> <<>>, scripts |-> <<>>,
                   softwares |-> <<>>]
    /\ har = <<>>
    /\ pc = "hints"
    /\ ei = 0 /\ phase = "none" /\ si = 0 /\ hints = <<>> /\ added = <<>>
    /\ calls = {} /\ output = NoOutput /\ probe_out = <<>>
    /\ \E h \in SeqsUpTo(HintNames, MaxHints) :
          probe = [name |-> "probe", homepage |-> "hp-probe", hints |-> h]

\* One call of Detector.get_hints.
CallGetHints ==
    /\ pc = "hints"
    /\ probe_out' = get_hints(probe, requested_url)
    /\ pc' = "hinted"
    /\ UNCHANGED <<requested_url, response, har, ei, phase, si, hints, added,
                   calls, output, probe>>

NextHints == CallGetHints

SpecHints == InitHints /\ [][NextHints]_vars

\* --------------------------------------------------------------- claim C5
HomepageOf(name) == "hp-" \o name
ValidHints(names) == SelectSeq(names, LAMBDA n : n \in RegisteredNames)
\* The HINT Results the claim names for a hints list.
ExpectedHints(names, url) ==
    [k \in 1..Len(ValidHints(names)) |->
        [name |-> ValidHints(names)[k], version |-> None,
         homepage |-> HomepageOf(ValidHints(names)[k]),
         from_url |-> url, type |-> HINT_TYPE]]

\* C5: get_hints returns one HINT Result per registered name of the hints
\* list, in the list's order, with the hinted plugin's name and homepage and the
\* requested URL; an unregistered name adds nothing and stops nothing.
C5_Hints ==
    (pc = "hinted") =>
        /\ Len(probe_out) = Len(ValidHints(probe.hints))
        /\ \A k \in 1..Len(probe_out) :
              probe_out[k] = ExpectedHints(probe.hints, requested_url)[k]

\* An unregistered name between two registered ones.
C5_Witness ==
    /\ pc = "hinted"
    /\ Len(probe.hints) = 3
    /\ probe.hints[1] = "wp" /\ probe.hints[2] = "nope" /\ probe.hints[3] = "jquery"
    /\ Len(probe_out) = 2
    /\ probe_out[2].name = "jquery"

\* =============================================================== matchers
HasHeader(entry, n) == \E k \in 1..Len(entry.headers) : entry.headers[k].name = n

\* MATCHERS[key].get_version(entry, *matchers) for the plugin's signatures.
MatcherGetVersion(key, entry, pname) ==
    IF pname = "jquery" /\ key = "url" /\ entry.response_url.path = "/jquery.js" THEN "1.2"
    ELSE IF pname = "jquery" /\ key = "body" /\ entry.text = "jq" THEN "1"
    ELSE IF pname = "jquery" /\ key = "header" /\ HasHeader(entry, "X-Jq") THEN "1"
    ELSE IF pname = "d3" /\ key = "xpath" /\ entry.text = "html" THEN "3"
    ELSE IF pname = "d3" /\ key = "body" /\ entry.text = "jq" THEN "3"
    ELSE None

\* MATCHERS[key].check_presence(entry, *matchers)
MatcherCheckPresence(key, entry, pname) ==
    \/ pname = "wp" /\ key = "body" /\ entry.text \in {"b1", "b2"}
    \/ pname = "wp" /\ key = "xpath" /\ entry.text = "html"
    \/ pname = "ga" /\ key = "url" /\ entry.response_url.path = "/jquery.js"
    \/ pname = "ga" /\ key = "header" /\ HasHeader(entry, "X-Jq")
    \/ pname = "cms" /\ key = "url" /\ entry.response_url.path \in {"/app.js", "/lib/app.js"}
    \/ pname = "cms" /\ key = "header" /\ HasHeader(entry, "X-Jq")

\* MATCHERS[key].get_module_name(entry, *matchers)
MatcherGetModuleName(key, entry, pname) ==
    IF pname = "jquery" /\ key = "url" /\ entry.response_url.path = "/jquery.js" THEN "ui"
    ELSE IF pname = "jquery" /\ key = "body" /\ entry.text = "jq" THEN "core"
    ELSE IF pname = "wp" /\ key = "xpath" /\ entry.text = "html" THEN "mod"
    ELSE None

\* plugin.get_information(entry) of a generic plugin; the name is None when
\* the returned dict has no 'name' key.
get_information(plugin, entry) ==
    IF entry.text = "b1" THEN [name |-> "cmsx", homepage |-> "hp-cmsx"]
    ELSE [name |-> None, homepage |-> None]

\* detectem.utils
get_url(entry) == entry.response_url
get_response_body(entry) == entry.text

Completeness(v) ==
    CASE v \in {"1", "3"} -> 1
      [] v \in {"1.2", "1.0", "1.1", "9.9"} -> 2
      [] OTHER -> 3

get_most_complete_version(versions) ==
    IF versions = <<>> THEN None
    ELSE versions[CHOOSE k \in 1..Len(versions) :
                    /\ \A j \in 1..Len(versions) :
                          Completeness(versions[j]) <= Completeness(versions[k])
                    /\ \A j \in 1..(k - 1) :
                          Completeness(versions[j]) < Completeness(versions[k])]

\* `file in url` on the URLs of the model.
Contains(file, url) ==
    \/ file = "app.js" /\ url.path \in {"/app.js", "/lib/app.js"}
    \/ file = "lib/" /\ url.path = "/lib/app.js"

\* hashlib.sha256(body).hexdigest() on the bodies of the model.
Sha256(body) ==
    CASE body = "b1" -> "d1"
      [] body = "b2" -> "d2"
      [] OTHER -> "d-" \o body

\* ========================================================= matcher routing
Without(grouped_matchers, a, b) ==
    SelectSeq(grouped_matchers, LAMBDA key : key # a /\ key # b)

\* Variant: the two branches exchanged.
_get_matchers_for_entry_swapped(source, plugin, entry) ==
    IF _get_entry_type(entry) = MAIN_ENTRY
    THEN Without(get_grouped_matchers(plugin, source), "header", "xpath")
    ELSE Without(get_grouped_matchers(plugin, source), "body", "url")

_get_matchers_for_entry(source, plugin, entry) ==
    IF _get_entry_type(entry) = MAIN_ENTRY
    THEN Without(get_grouped_matchers(plugin, source), "body", "url")
    ELSE Without(get_grouped_matchers(plugin, source), "header", "xpath")

Call(fn, key, entry) == [fn |-> fn, key |-> key, type |-> _get_entry_type(entry)]

get_plugin_version(plugin, entry) ==
    LET grouped_matchers == _get_matchers_for_entry("matchers", plugin, entry)
        found == [k \in 1..Len(grouped_matchers) |->
                     MatcherGetVersion(grouped_matchers[k], entry, plugin.name)]
    IN  get_most_complete_version(SelectSeq(found, Truthy))

get_plugin_version_calls(plugin, entry) ==
    LET grouped_matchers == _get_matchers_for_entry("matchers", plugin, entry)
    IN  {Call("get_plugin_version", grouped_matchers[k], entry) :
            k \in 1..Len(grouped_matchers)}

\* The loop of get_plugin_name: the position at which it breaks, 0 when it
\* runs to its end.
RECURSIVE ModuleBreak(_, _, _, _)
ModuleBreak(grouped_matchers, k, plugin, entry) ==
    IF k > Len(grouped_matchers) THEN 0
    ELSE IF Truthy(MatcherGetModuleName(grouped_matchers[k], entry, plugin.name)) THEN k
    ELSE ModuleBreak(grouped_matchers, k + 1, plugin, entry)

get_plugin_name(plugin, entry) ==
    IF ~plugin.is_modular THEN plugin.name
    ELSE LET grouped_matchers == _get_matchers_for_entry("modular_matchers", plugin, entry)
             at == ModuleBreak(grouped_matchers, 1, plugin, entry)
         IN  IF at # 0
             THEN plugin.name \o "-"
                  \o MatcherGetModuleName(grouped_matchers[at], entry, plugin.name)
             ELSE plugin.name

get_plugin_name_calls(plugin, entry) ==
    IF ~plugin.is_modular THEN {}
    ELSE LET grouped_matchers == _get_matchers_for_entry("modular_matchers", plugin, entry)
             at == ModuleBreak(grouped_matchers, 1, plugin, entry)
             last == IF at # 0 THEN at ELSE Len(grouped_matchers)
         IN  {Call("get_plugin_name", grouped_matchers[k], entry) : k \in 1..last}

check_indicator_presence(plugin, entry) ==
    LET grouped_matchers == _get_matchers_for_entry("indicators", plugin, entry)
    IN  \E k \in 1..Len(grouped_matchers) :
           MatcherCheckPresence(grouped_matchers[k], entry, plugin.name)

check_indicator_presence_calls(plugin, entry) ==
    LET grouped_matchers == _get_matchers_for_entry("indicators", plugin, entry)
    IN  {Call("check_indicator_presence", grouped_matchers[k], entry) :
            k \in 1..Len(grouped_matchers)}

\* ------------------------------------------------------------ file hashes
\* The inner loop of get_version_via_file_hashes: the position of the first
\* version whose hash is h, 0 when there is none.
RECURSIVE HashLoop(_, _, _)
HashLoop(hash_dict, k, h) ==
    IF k > Len(hash_dict) THEN 0
    ELSE IF h = hash_dict[k].hash THEN k
    ELSE HashLoop(hash_dict, k + 1, h)

\* Variant: the loop over the files ends at the first file found in the URL.
RECURSIVE FileLoop_first_file_only(_, _, _, _)
FileLoop_first_file_only(file_hashes, i, url, body) ==
    IF i > Len(file_hashes) THEN None
    ELSE IF ~Contains(file_hashes[i].file, url)
         THEN FileLoop_first_file_only(file_hashes, i + 1, url, body)
         ELSE LET at == HashLoop(file_hashes[i].hashes, 1, Sha256(body))
              IN  IF at # 0 THEN file_hashes[i].hashes[at].version ELSE None

\* The outer loop of get_version_via_file_hashes from the i-th file on.
RECURSIVE FileLoop(_, _, _, _)
FileLoop(file_hashes, i, url, body) ==
    IF i > Len(file_hashes) THEN None
    ELSE IF ~Contains(file_hashes[i].file, url)
         THEN FileLoop(file_hashes, i + 1, url, body)
         ELSE LET at == HashLoop(file_hashes[i].hashes, 1, Sha256(body))
              IN  IF at # 0 THEN file_hashes[i].hashes[at].version
                  ELSE FileLoop(file_hashes, i + 1, url, body)

get_version_via_file_hashes(plugin, entry) ==
    IF plugin.file_hashes = <<>> THEN None
    ELSE FileLoop(plugin.file_hashes, 1, get_url(entry), get_response_body(entry))

\* ================================================================ process_har
\* One call of self._results.add_result: the Result, and where the call was
\* made (the call site, the entry or software index, the plugin at hand).
Item(result, site, at, pname) ==
    [result |-> result, site |-> site, at |-> at, plugin |-> pname]

\* `hints += self.get_hints(plugin)`: what is appended to the local list.
QueuedHints(plugin, url, i) ==
    LET found == get_hints(plugin, url)
    IN  [k \in 1..Len(found) |-> Item(found[k], "hint", i, plugin.name)]

Nothing == [adds |-> <<>>, hints |-> <<>>, calls |-> {}]

Both(r, t) ==
    [adds |-> r.adds \o t.adds, hints |-> r.hints \o t.hints,
     calls |-> r.calls \cup t.calls]

\* The body of `for plugin in version_plugins`.
VersionStep(plugin, entry, i, url) ==
    LET version == get_plugin_version(plugin, entry)
    IN  IF Truthy(version)
        THEN [adds |-> <<Item(Result(get_plugin_name(plugin, entry), version,
                                     plugin.homepage, get_url(entry), VERSION_TYPE),
                              "version", i, plugin.name)>>,
              hints |-> QueuedHints(plugin, url, i),
              calls |-> get_plugin_version_calls(plugin, entry)
                        \cup get_plugin_name_calls(plugin, entry)]
        ELSE [adds |-> <<>>, hints |-> <<>>,
              calls |-> get_plugin_version_calls(plugin, entry)]

\* The body of `for plugin in indicator_plugins`.
IndicatorStep(plugin, entry, i, url) ==
    IF check_indicator_presence(plugin, entry)
    THEN LET name == get_plugin_name(plugin, entry)
             version == get_version_via_file_hashes(plugin, entry)
             first == Item(Result(name, None, plugin.homepage, get_url(entry),
                                  INDICATOR_TYPE), "indicator", i, plugin.name)
             second == IF Truthy(version)
                       THEN Item(Result(name, version, plugin.homepage,
                                        get_url(entry), VERSION_TYPE),
                                 "hash", i, plugin.name)
                       ELSE Item(Result(name, None, plugin.homepage,
                                        get_url(entry), INDICATOR_TYPE),
                                 "indicator_again", i, plugin.name)
         IN  [adds |-> <<first, second>>,
              hints |-> QueuedHints(plugin, url, i),
              calls |-> check_indicator_presence_calls(plugin, entry)
                        \cup get_plugin_name_calls(plugin, entry)]
    ELSE [adds |-> <<>>, hints |-> <<>>,
          calls |-> check_indicator_presence_calls(plugin, entry)]

\* The body of `for plugin in generic_plugins`.
GenericStep(plugin, entry, i, url) ==
    IF check_indicator_presence(plugin, entry)
    THEN LET plugin_data == get_information(plugin, entry)
         IN  [adds |-> IF plugin_data.name # None
                       THEN <<Item(Result(plugin_data.name, None,
                                          plugin_data.homepage, get_url(entry),
                                          GENERIC_TYPE),
                                   "generic", i, plugin.name)>>
                       ELSE <<>>,
              hints |-> <<>>,
              calls |-> check_indicator_presence_calls(plugin, entry)]
    ELSE [adds |-> <<>>, hints |-> <<>>,
          calls |-> check_indicator_presence_calls(plugin, entry)]

RECURSIVE VersionLoop(_, _, _, _, _)
VersionLoop(plugins, k, entry, i, url) ==
    IF k > Len(plugins) THEN Nothing
    ELSE Both(VersionStep(plugins[k], entry, i, url),
              VersionLoop(plugins, k + 1, entry, i, url))

RECURSIVE IndicatorLoop(_, _, _, _, _)
IndicatorLoop(plugins, k, entry, i, url) ==
    IF k > Len(plugins) THEN Nothing
    ELSE Both(IndicatorStep(plugins[k], entry, i, url),
              IndicatorLoop(plugins, k + 1, entry, i, url))

RECURSIVE GenericLoop(_, _, _, _, _)
GenericLoop(plugins, k, entry, i, url) ==
    IF k > Len(plugins) THEN Nothing
    ELSE Both(GenericStep(plugins[k], entry, i, url),
              GenericLoop(plugins, k + 1, entry, i, url))

\* ======================================================== process_from_splash
\* Variant: the plugin's hints are added before the software's own Result.
SplashAdds_hints_first(software, j, url) ==
    LET plugin == PluginsGet(software.name)
        found == get_hints(plugin, url)
    IN  [k \in 1..Len(found) |-> Item(found[k], "splash_hint", j, plugin.name)]
        \o <<Item(Result(plugin.name, software.version, plugin.homepage, url,
                         VERSION_TYPE), "splash", j, plugin.name)>>

\* The add_result calls of one iteration of process_from_splash.
SplashAdds(software, j, url) ==
    LET plugin == PluginsGet(software.name)
        found == get_hints(plugin, url)
    IN  <<Item(Result(plugin.name, software.version, plugin.homepage, url,
                      VERSION_TYPE), "splash", j, plugin.name)>>
        \o [k \in 1..Len(found) |-> Item(found[k], "splash_hint", j, plugin.name)]

\* Variant: a software without a plugin is passed over.
SplashRaises_never(software) == FALSE

\* `plugin.name` on the None that self._plugins.get returns raises.
SplashRaises(software) == ~IsPlugin(PluginsGet(software.name))

\* ================================================================ get_results
\* ResultCollection.get_results: per name, the versioned Results when there
\* are any, else one bare Result (the first added).
CollectionResults(items) ==
    LET rs == {items[k].result : k \in 1..Len(items)}
        FirstOf(n) == items[CHOOSE k \in 1..Len(items) :
                               /\ items[k].result.name = n
                               /\ \A j \in 1..(k - 1) : items[j].result.name # n].result
    IN  {r \in rs : Truthy(r.version)}
        \cup {FirstOf(r.name) : r \in {q \in rs : \A t \in rs :
                                           t.name = q.name => ~Truthy(t.version)}}

SortedNames == <<"cmsx", "d3", "ga", "jquery", "jquery-core", "jquery-ui", "wp", "wp-mod">>
SortedVersions == <<"None", "1", "1.0", "1.1", "1.2", "2.1.0", "3", "9.9">>
RankIn(seq, x) == CHOOSE k \in 1..Len(seq) : seq[k] = x
SortKey(r) ==
    <<RankIn(SortedNames, r.name), RankIn(SortedVersions, r.version),
      IF r.type = VERSION_TYPE THEN 1 ELSE 2,
      RankIn(<<"/", "/app.js", "/jquery.js", "/lib/app.js", "/old", "/x">>, r.from_url.path)>>
RECURSIVE LexLess(_, _, _)
LexLess(a, b, k) ==
    IF k > Len(a) THEN FALSE
    ELSE IF a[k] # b[k] THEN a[k] < b[k]
    ELSE LexLess(a, b, k + 1)

\* sorted(...) of the collection's Results.
RECURSIVE Sorted(_)
Sorted(rs) ==
    IF rs = {} THEN <<>>
    ELSE LET least == CHOOSE r \in rs :
                         \A q \in rs \ {r} : LexLess(SortKey(r), SortKey(q), 1)
         IN  <<least>> \o Sorted(rs \ {least})

\* Variant: the version is left out of the output dict.
ToRecord_no_version(rt, metadata) ==
    ("name" :> rt.name)
    @@ (IF metadata
        THEN ("homepage" :> rt.homepage) @@ ("type" :> rt.type)
             @@ ("from_url" :> rt.from_url)
        ELSE <<>>)

\* One output dict of get_results.
ToRecord(rt, metadata) ==
    ("name" :> rt.name)
    @@ (IF Truthy(rt.version) THEN ("version" :> rt.version) ELSE <<>>)
    @@ (IF metadata
        THEN ("homepage" :> rt.homepage) @@ ("type" :> rt.type)
             @@ ("from_url" :> rt.from_url)
        ELSE <<>>)

ResultsData(items, metadata) ==
    LET rts == Sorted(CollectionResults(items))
    IN  [k \in 1..Len(rts) |-> ToRecord(rts[k], metadata)]

\* ================================================================ detection
HarCatalogue ==
    { Entry(Url("a", "/"), Url("a", "/"), <<Header("X-Jq", RefEmpty)>>, "html"),
      Entry(Url("a", "/old"), Url("a", "/old"),
            <<Header("Location", RefPath("/"))>>, "b2"),
      Entry(Url("a", "/app.js"), Url("a", "/lib/app.js"), <<>>, "b1"),
      Entry(Url("a", "/app.js"), Url("a", "/app.js"), <<>>, "b2"),
      Entry(Url("a", "/jquery.js"), Url("a", "/jquery.js"), <<>>, "jq") }

ScriptCatalogue == {"jq"}

Software(n, v) == [name |-> n, version |-> v]
SoftwareCatalogue ==
    {Software("jquery", "2.1.0"), Software("d3", "2.1.0"), Software("ghost", "2.1.0")}

Init ==
    /\ requested_url = Url("a", "/")
    /\ \E h \in SeqsUpTo(HarCatalogue, MaxHar), s \in SeqsUpTo(ScriptCatalogue, MaxScripts),
          w \in SeqsUpTo(SoftwareCatalogue, MaxSoftwares), present \in BOOLEAN :
          /\ (~present => h = <<>>)
          /\ response = [has_har |-> present, har |-> h, scripts |-> s,
                          softwares |-> w]
    /\ har = <<>>
    /\ pc = "new"
    /\ Idle

\* get_results enters process_har.
StartGetResults ==
    /\ pc = "ready"
    /\ hints' = <<>>
    /\ IF Len(har) = 0
       THEN pc' = "flush" /\ UNCHANGED <<ei, phase>>
       ELSE pc' = "har" /\ ei' = 1 /\ phase' = "version"
    /\ UNCHANGED <<requested_url, response, har, si, added, calls, output,
                   probe, probe_out>>

Apply(r) ==
    /\ added' = added \o r.adds
    /\ hints' = hints \o r.hints
    /\ calls' = calls \cup r.calls

VersionPlugins ==
    /\ pc = "har" /\ phase = "version"
    /\ Apply(VersionLoop(with_version_matchers, 1, har[ei], ei, requested_url))
    /\ phase' = "indicator"
    /\ UNCHANGED <<requested_url, response, har, pc, ei, si, output, probe, probe_out>>

IndicatorPlugins ==
    /\ pc = "har" /\ phase = "indicator"
    /\ Apply(IndicatorLoop(with_indicator_matchers, 1, har[ei], ei, requested_url))
    /\ phase' = "generic"
    /\ UNCHANGED <<requested_url, response, har, pc, ei, si, output, probe, probe_out>>

GenericPlugins ==
    /\ pc = "har" /\ phase = "generic"
    /\ Apply(GenericLoop(with_generic_matchers, 1, har[ei], ei, requested_url))
    /\ IF ei = Len(har)
       THEN pc' = "flush" /\ UNCHANGED <<ei, phase>>
       ELSE pc' = "har" /\ ei' = ei + 1 /\ phase' = "version"
    /\ UNCHANGED <<requested_url, response, har, si, output, probe, probe_out>>

\* `for hint in hints: self._results.add_result(hint)`, then on to
\* process_from_splash.
FlushHints ==
    /\ pc = "flush"
    /\ added' = added \o hints
    /\ pc' = "splash"
    /\ si' = 1
    /\ UNCHANGED <<requested_url, response, har, ei, phase, hints, calls, output,
                   probe, probe_out>>

SplashSoftware ==
    /\ pc = "splash" /\ si <= Len(response.softwares)
    /\ ~SplashRaises(response.softwares[si])
    /\ added' = added \o SplashAdds(response.softwares[si], si, requested_url)
    /\ si' = si + 1
    /\ UNCHANGED <<requested_url, response, har, pc, ei, phase, hints, calls,
                   output, probe, probe_out>>

SplashFail ==
    /\ pc = "splash" /\ si <= Len(response.softwares)
    /\ SplashRaises(response.softwares[si])
    /\ pc' = "failed"
    /\ UNCHANGED <<requested_url, response, har, ei, phase, si, hints, added,
                   calls, output, probe, probe_out>>

\* The loop over the sorted Results, and the return.
BuildResults ==
    /\ pc = "splash" /\ si > Len(response.softwares)
    /\ \E metadata \in BOOLEAN :
          output' = [returned |-> TRUE, metadata |-> metadata,
                     data |-> ResultsData(added, metadata)]
    /\ pc' = "done"
    /\ UNCHANGED <<requested_url, response, har, ei, phase, si, hints, added,
                   calls, probe, probe_out>>

Next ==
    \/ Construct
    \/ StartGetResults
    \/ VersionPlugins
    \/ IndicatorPlugins
    \/ GenericPlugins
    \/ FlushHints
    \/ SplashSoftware
    \/ SplashFail
    \/ BuildResults

Spec == Init /\ [][Next]_vars

\* ------------------------------------------------------------- claim C4
\* C4: a matcher invoked on a MAIN entry is a header or xpath matcher; one
\* invoked on a RESOURCE or INLINE_SCRIPT entry is a url or body matcher.
C4_Routing ==
    \A c \in calls :
        /\ c.fn \in {"get_plugin_version", "get_plugin_name", "check_indicator_presence"}
        /\ c.type = MAIN_ENTRY => c.key \in {"header", "xpath"}
        /\ c.type \in {RESOURCE_ENTRY, INLINE_SCRIPT_ENTRY} => c.key \in {"url", "body"}
        /\ c.type \in {MAIN_ENTRY, RESOURCE_ENTRY, INLINE_SCRIPT_ENTRY}

\* Each of the three callers has invoked matchers on a MAIN and on a non-MAIN
\* entry, an inline script among them.
C4_Witness ==
    /\ \A fn \in {"get_plugin_version", "get_plugin_name", "check_indicator_presence"} :
          /\ \E c \in calls : c.fn = fn /\ c.type = MAIN_ENTRY
          /\ \E c \in calls : c.fn = fn /\ c.type = RESOURCE_ENTRY
    /\ \E c \in calls : c.type = INLINE_SCRIPT_ENTRY /\ c.key = "body"
    /\ \E c \in calls : c.type = MAIN_ENTRY /\ c.key = "xpath"

\* ------------------------------------------------------------- claim C6
Range(f) == {f[x] : x \in DOMAIN f}
InPassB == pc \in {"splash", "failed", "done"}
\* The indicator loop of the i-th entry has run.
IndicatorDone(i) ==
    \/ pc = "har" /\ (i < ei \/ (i = ei /\ phase = "generic"))
    \/ pc = "flush"
    \/ InPassB
EligibleKinds(e) ==
    IF e.type = MAIN_ENTRY THEN {"header", "xpath"} ELSE {"url", "body"}
PresentOn(p, e) ==
    \E key \in EligibleKinds(e) \cap Range(p.indicators) :
        MatcherCheckPresence(key, e, p.name)
\* The versions recorded with the body's digest under a key found in the URL.
HashVersions(p, e) ==
    {vh.version :
        vh \in UNION {{h \in Range(f.hashes) : h.hash = Sha256(e.text)} :
                        f \in {g \in Range(p.file_hashes) :
                                  Contains(g.file, e.response_url)}}}
\* Positions of the Results added for plugin p on the i-th entry.
PositionsOf(i, p) ==
    {k \in 1..Len(added) : /\ added[k].at = i /\ added[k].plugin = p.name
                           /\ added[k].site \notin {"hint", "splash", "splash_hint"}}

\* C6: an indicator plugin present on an entry adds exactly two Results under
\* one name for it, one after the other: an INDICATOR, then the VERSION whose
\* recorded hash is the body's digest under a key found in the response URL,
\* or, without such a version, a second INDICATOR.
C6_IndicatorPair ==
    \A i \in 1..Len(har) : \A p \in Range(with_indicator_matchers) :
        IndicatorDone(i) =>
            IF PresentOn(p, har[i])
            THEN /\ Cardinality(PositionsOf(i, p)) = 2
                 /\ \E k \in PositionsOf(i, p) :
                       /\ k + 1 \in PositionsOf(i, p)
                       /\ added[k].result.type = INDICATOR_TYPE
                       /\ added[k].result.version = None
                       /\ added[k].result.from_url = har[i].response_url
                       /\ added[k + 1].result.name = added[k].result.name
                       /\ added[k + 1].result.from_url = har[i].response_url
                       /\ IF HashVersions(p, har[i]) # {}
                          THEN /\ added[k + 1].result.type = VERSION_TYPE
                               /\ added[k + 1].result.version \in HashVersions(p, har[i])
                          ELSE /\ added[k + 1].result.type = INDICATOR_TYPE
                               /\ added[k + 1].result.version = None
            ELSE PositionsOf(i, p) = {}

\* A version found under the second key of fileHashes, a body with another
\* digest, and a plugin without fileHashes, in one run.
C6_Witness ==
    /\ pc = "done"
    /\ \E k \in 1..Len(added) :
          /\ added[k].site = "hash" /\ added[k].result.version = "1.0"
          /\ added[k].result.from_url.path = "/lib/app.js"
    /\ \E k \in 1..Len(added) :
          added[k].site = "indicator_again" /\ added[k].plugin = "wp"
    /\ \E k \in 1..Len(added) :
          added[k].site = "indicator_again" /\ added[k].plugin = "ga"

\* ------------------------------------------------------------- claim C7
EmptySession == H = 0 /\ N = 0
AllRegistered ==
    \A j \in 1..Len(response.softwares) : response.softwares[j].name \in RegisteredNames
PassASites == {"version", "indicator", "hash", "indicator_again", "generic", "hint"}
SplashVersions == SelectSeq(added, LAMBDA it : it.site = "splash")
\* One VERSION Result per reported software, in the order reported.
OnePerSoftware ==
    /\ Len(SplashVersions) = Len(response.softwares)
    /\ \A j \in 1..Len(SplashVersions) :
          SplashVersions[j].result =
              [name |-> response.softwares[j].name,
               version |-> response.softwares[j].version,
               homepage |-> HomepageOf(response.softwares[j].name),
               from_url |-> requested_url, type |-> VERSION_TYPE]
\* One registered software without hints, asked for without metadata.
ExampleRun ==
    /\ Len(response.softwares) = 1
    /\ PluginsGet(response.softwares[1].name).hints = <<>>
    /\ ~output.metadata
ExampleOutput ==
    /\ Len(output.data) = 1
    /\ DOMAIN output.data[1] = {"name", "version"}
    /\ output.data[1]["name"] = response.softwares[1].name
    /\ output.data[1]["version"] = response.softwares[1].version
HarAddsNothing ==
    /\ \A k \in 1..Len(added) : added[k].site \notin PassASites
    /\ hints = <<>>
    /\ calls = {}
Running == pc \notin {"done", "failed"}

Results(items) == [k \in 1..Len(items) |-> items[k].result]
PassA == SelectSeq(added, LAMBDA it : it.site \in PassASites)
PassB == SelectSeq(added, LAMBDA it : it.site \notin PassASites)
\* The hinting detections of Pass A: each version-plugin Result and the first
\* Result of each indicator detection.
Detections == SelectSeq(PassA, LAMBDA it : it.site \in {"version", "indicator"})
RECURSIVE HintsOfDetections(_, _)
HintsOfDetections(ds, k) ==
    IF k > Len(ds) THEN <<>>
    ELSE ExpectedHints(PluginsGet(ds[k].plugin).hints, requested_url)
         \o HintsOfDetections(ds, k + 1)
RECURSIVE ExpectedPassB(_, _)
ExpectedPassB(j, n) ==
    IF j > n THEN <<>>
    ELSE <<[name |-> response.softwares[j].name,
            version |-> response.softwares[j].version,
            homepage |-> HomepageOf(response.softwares[j].name),
            from_url |-> requested_url, type |-> VERSION_TYPE]>>
         \o ExpectedHints(PluginsGet(response.softwares[j].name).hints, requested_url)
         \o ExpectedPassB(j + 1, n)
IsHint(it) == it.result.type = HINT_TYPE

\* C8: process_har adds no HINT Result before the last entry's loops are
\* over, then adds the queued hints in discovery order behind every other
\* Result of the pass; process_from_splash adds each software's VERSION Result
\* with its plugin's hints right behind it.
C8_HintOrder ==
    /\ pc \in {"new", "ready", "har", "flush"} =>
          \A k \in 1..Len(added) : ~IsHint(added[k])
    /\ InPassB =>
          /\ Results(SelectSeq(PassA, IsHint)) = HintsOfDetections(Detections, 1)
          /\ \A j, k \in 1..Len(PassA) :
                (IsHint(PassA[j]) /\ ~IsHint(PassA[k])) => k < j
          /\ added = PassA \o PassB
          /\ Results(PassB) = ExpectedPassB(1, si - 1)

\* Hints of a version plugin and of an indicator plugin queued on two entries,
\* and a reported software with a hint followed by another software.
C8_Witness ==
    /\ pc = "done"
    /\ Len(SelectSeq(PassA, IsHint)) >= 4
    /\ \E j, k \in 1..Len(PassA) :
          /\ j < k /\ PassA[j].site = "hint" /\ PassA[k].site = "hint"
          /\ PassA[j].plugin = "d3" /\ PassA[k].plugin = "wp"
          /\ PassA[j].at < PassA[k].at
    /\ \E k \in 1..Len(added) : added[k].site = "generic"
    /\ Len(PassB) = 3 /\ PassB[2].site = "splash_hint" /\ PassB[3].site = "splash"

\* ------------------------------------------------------------- claim C9
\* C9: the phases follow the docstring of process_har: version plugins, then
\* the software from Splash, indicators last.
C9_DocstringOrder ==
    \A j, k \in 1..Len(added) :
        /\ (added[j].site = "version" /\ added[k].site = "splash") => j < k
        /\ (added[j].site \in {"indicator", "hash", "indicator_again"}
            /\ added[k].site = "splash") => k < j

\* ------------------------------------------------------------ claim C10
Unregistered(j) == response.softwares[j].name \notin RegisteredNames

C10_Failed ==
    /\ pc = "failed" =>
          /\ si <= Len(response.softwares) /\ Unregistered(si)
          /\ \A j \in 1..(si - 1) : ~Unregistered(j)
          /\ ~output.returned /\ output.data = <<>>
          /\ Len(SplashVersions) = si - 1
          /\ \A k \in 1..Len(added) :
                added[k].site \in {"splash", "splash_hint"} => added[k].at < si
          /\ ~ENABLED Next
    /\ pc = "done" => AllRegistered
    /\ (pc = "splash" /\ si <= Len(response.softwares) /\ Unregistered(si)) =>
          ~ENABLED SplashSoftware

\* C10: a reported software without a plugin ends the run in a failure at that
\* software: nothing is added for it or for a later software, nothing is
\* returned, and what was added before stays.
C10_SplashFailure ==
    /\ []C10_Failed
    /\ [][pc' = "failed" => (pc = "splash" /\ added' = added /\ output' = output)]_vars

\* A failure at the second software, behind Results of process_har and of the
\* first software.
C10_Witness ==
    /\ pc = "failed" /\ si = 2
    /\ \E k \in 1..Len(added) : added[k].site = "version"
    /\ \E k \in 1..Len(added) : added[k].site = "splash"

====
